---- MODULE Spec2Model ----
(***************************************************************************)
(* Model of the stock-analysis API server: the startup routine            *)
(* initializePool, the handlers put_stocks and get_stocks of              *)
(* Controllers/stocks-controller.js, the shared pg connection pool and    *)
(* the table stock_analysis_results the handlers write and read.          *)
(***************************************************************************)
EXTENDS Integers, Sequences, FiniteSets, TLC

(***************************************************************************)
(* Bounds of the model.                                                    *)
(***************************************************************************)
\* request slots served concurrently in the pool specification
NumClients == 2
\* connections of the pool; new Pool(dbCredentials) passes no max, so the size
\* is the driver's default; modelled at a size concurrent requests exhaust
PoolSize == 2
\* rows the table may hold in the data specification
MaxRows == 1
\* rows the table may hold in the pool specification
PoolRows == 1
\* rows beyond the LIMIT the table may hold in the bulk specification
BulkExtra == 1
\* last instant of the clock
MaxClock == 1

(***************************************************************************)
(* Program constants.                                                      *)
(***************************************************************************)
\* 'SELECT * FROM stock_analysis_results LIMIT 100'
RowLimit == 100
\* symbol VARCHAR(10) NOT NULL
SymbolMaxLen == 10

(***************************************************************************)
(* JavaScript values of a request body, as tagged records.  A string is   *)
(* the sequence of its character codes; an ISO-8601 UTC timestamp string  *)
(* is tagged "iso" and carries the instant it denotes.                     *)
(***************************************************************************)
Undef == [t |-> "undefined", v |-> <<>>]
Null == [t |-> "null", v |-> <<>>]
Num(n) == [t |-> "number", v |-> <<n>>]
Str(s) == [t |-> "string", v |-> s]
Iso(n) == [t |-> "iso", v |-> <<n>>]

\* values of the table's columns
Text(s) == [t |-> "text", v |-> s]
Numeric(n) == [t |-> "numeric", v |-> <<n>>]
Timestamp(n) == [t |-> "timestamp", v |-> <<n>>]
SqlError == [t |-> "error", v |-> <<>>]

Min(a, b) == IF a < b THEN a ELSE b

RECURSIVE Rep(_, _)
Rep(c, n) == IF n = 0 THEN <<>> ELSE <<c>> \o Rep(c, n - 1)

\* the decimal digits of a natural number, as character codes
RECURSIVE Dec(_)
Dec(n) == IF n < 10 THEN <<48 + n>> ELSE Dec(n \div 10) \o <<48 + (n % 10)>>

\* JavaScript truthiness, as `!pool` and `!symbol` use it
FalsyEmptyStringTruthy(x) ==
    \/ x.t \in {"undefined", "null"}
    \/ x.t = "number" /\ x.v = <<0>>

Falsy(x) ==
    \/ x.t \in {"undefined", "null"}
    \/ x.t = "string" /\ x.v = <<>>
    \/ x.t = "number" /\ x.v = <<0>>

(***************************************************************************)
(* Request bodies.                                                         *)
(***************************************************************************)
NumericKeys == {"price", "volume", "pe_ratio", "divident_yield", "one_year_target"}

EmptyBody ==
    [symbol |-> Undef, price |-> Undef, volume |-> Undef, pe_ratio |-> Undef,
     divident_yield |-> Undef, dividend_yield |-> Undef, one_year_target |-> Undef,
     news_summaries_json |-> Undef, last_analysis_timestamp |-> Undef]

A1 == <<65>>
A10 == Rep(65, 10)

SymbolVals ==
    {Undef, Null, Str(<<>>), Str(A1), Str(A10), Str(A10 \o <<32>>), Str(A10 \o <<65>>)}

NumVals == {Null, Num(0), Num(7), Str(<<120>>)}

BaseBody == [EmptyBody EXCEPT !.symbol = Str(A1)]

\* every field of the data model populated, under the data model's names
FullBody ==
    [symbol |-> Str(A1), price |-> Num(7), volume |-> Num(7), pe_ratio |-> Num(7),
     divident_yield |-> Undef, dividend_yield |-> Num(7), one_year_target |-> Num(7),
     news_summaries_json |-> Str(<<110>>), last_analysis_timestamp |-> Iso(0)]

Payloads ==
    {[BaseBody EXCEPT !.symbol = s] : s \in SymbolVals}
    \cup {[BaseBody EXCEPT ![k] = n] : k \in NumericKeys \cup {"dividend_yield"}, n \in NumVals}
    \cup {[BaseBody EXCEPT !.last_analysis_timestamp = Iso(0)],
          [BaseBody EXCEPT !.news_summaries_json = Str(<<110>>)],
          FullBody,
          [FullBody EXCEPT !.divident_yield = Num(7)]}

PoolPayloads == {BaseBody, EmptyBody}

BulkPayloads == {BaseBody}

(***************************************************************************)
(* The backend: node-postgres and the table.                               *)
(***************************************************************************)
\* pg's prepareValue: an undefined parameter is sent as NULL
prepareValue(x) == IF x.t = "undefined" THEN Null ELSE x

\* symbol VARCHAR(10) NOT NULL: a longer value is an error unless the excess
\* is all spaces, and then it is truncated
SymbolColumn(x) ==
    CASE x.t = "null" -> SqlError
      [] x.t = "string" ->
            IF Len(x.v) <= SymbolMaxLen THEN Text(x.v)
            ELSE IF \A i \in (SymbolMaxLen + 1)..Len(x.v) : x.v[i] = 32
                 THEN Text(SubSeq(x.v, 1, SymbolMaxLen))
                 ELSE SqlError
      [] x.t = "number" -> Text(Dec(x.v[1]))
      [] OTHER -> SqlError

\* NUMERIC NULL and BIGINT NULL columns
NumericColumn(x) ==
    CASE x.t = "null" -> Null
      [] x.t = "number" -> Numeric(x.v[1])
      [] OTHER -> SqlError

\* news_summaries_json TEXT NULL
TextColumn(x) ==
    CASE x.t = "null" -> Null
      [] x.t = "string" -> Text(x.v)
      [] x.t = "number" -> Text(Dec(x.v[1]))
      [] OTHER -> SqlError

\* last_analysis_timestamp TIMESTAMP WITHOUT TIME ZONE NULL DEFAULT now: the
\* INSERT names the column, so the default never applies
TimestampColumn(x) ==
    CASE x.t = "null" -> Null
      [] x.t = "iso" -> Timestamp(x.v[1])
      [] OTHER -> SqlError

\* the row an INSERT of the parameter list vals builds
InsertRow(vals) ==
    [symbol |-> SymbolColumn(prepareValue(vals[1])),
     price |-> NumericColumn(prepareValue(vals[2])),
     volume |-> NumericColumn(prepareValue(vals[3])),
     pe_ratio |-> NumericColumn(prepareValue(vals[4])),
     dividend_yield |-> NumericColumn(prepareValue(vals[5])),
     one_year_target |-> NumericColumn(prepareValue(vals[6])),
     news_summaries_json |-> TextColumn(prepareValue(vals[7])),
     last_analysis_timestamp |-> TimestampColumn(prepareValue(vals[8]))]

Columns ==
    {"symbol", "price", "volume", "pe_ratio", "dividend_yield", "one_year_target",
     "news_summaries_json", "last_analysis_timestamp"}

RowOk(row) == \A c \in Columns : row[c] # SqlError

\* pg's type parsers and res.json: NUMERIC and BIGINT come back as decimal
\* strings; a timestamp comes back as a Date and is serialised as the ISO
\* string of its instant (the server process running in UTC)
JsonValue(x) ==
    CASE x.t = "null" -> Null
      [] x.t = "text" -> Str(x.v)
      [] x.t = "numeric" -> Str(Dec(x.v[1]))
      [] x.t = "timestamp" -> Iso(x.v[1])
      [] OTHER -> Undef

JsonRow(row) == [c \in Columns |-> JsonValue(row[c])]

\* the sets of row positions the query without its LIMIT clause would return
SelectNoLimit(n) == {1..n}

\* the sets of row positions 'SELECT * ... LIMIT 100' may return from a heap
\* of n rows.  There is no ORDER BY: the rows come in scan order from the
\* position where the backend starts its sequential scan, wrapping around
SelectLimit(n) ==
    IF n <= RowLimit THEN {1..n}
    ELSE {{((s - 1 + j) % n) + 1 : j \in 0..(RowLimit - 1)} : s \in 1..n}

(***************************************************************************)
(* State.                                                                  *)
(***************************************************************************)
VARIABLES
    pool,        \* the module-level `pool` is set (let pool; pool = new Pool)
    initPc,      \* position of initializePool
    initClient,  \* initializePool holds its client
    backend,     \* "up" or "down": whether the database answers without error
    tableExists, \* stock_analysis_results exists
    table,       \* its rows, in heap order
    checkedOut,  \* clients checked out of the pool and not released
    pc,          \* per request slot: position of its handler
    req,         \* per request slot: the request being handled
    client,      \* per request slot: the handler's `client` is set
    resp,        \* per request slot: the response sent
    answered,    \* per request slot: res.json calls for the request
    attempts,    \* per request slot: pool.connect calls for the request
    lastRows,    \* rows of the last GET answered since the last insert
    lastPut,     \* the last insert: its body and the row's position
    now          \* the clock

vars ==
    <<pool, initPc, initClient, backend, tableExists, table, checkedOut, pc, req,
      client, resp, answered, attempts, lastRows, lastPut, now>>

AllClients == 1..NumClients
DataClients == {1}
PoolClients == 1..NumClients
BulkClients == {1}
FairClients == {1, 2}

NoReq == [kind |-> "none", body |-> EmptyBody]
NoResp == [status |-> 0, error |-> "", data |-> <<>>, rows |-> {}]
NoRows == [some |-> FALSE, rows |-> {}]
NoPut == [some |-> FALSE, ctid |-> 0, body |-> EmptyBody]

Init ==
    /\ pool = FALSE
    /\ initPc = "credentials"
    /\ initClient = FALSE
    /\ backend \in {"up", "down"}
    /\ tableExists \in BOOLEAN
    /\ table = <<>>
    /\ checkedOut = 0
    /\ pc = [r \in AllClients |-> "idle"]
    /\ req = [r \in AllClients |-> NoReq]
    /\ client = [r \in AllClients |-> FALSE]
    /\ resp = [r \in AllClients |-> NoResp]
    /\ answered = [r \in AllClients |-> 0]
    /\ attempts = [r \in AllClients |-> 0]
    /\ lastRows = NoRows
    /\ lastPut = NoPut
    /\ now = 0

(***************************************************************************)
(* initializePool: getDbCredentials, new Pool, pool.connect, the test     *)
(* query, CREATE TABLE IF NOT EXISTS, client.release; any error ends in   *)
(* process.exit(1).                                                        *)
(***************************************************************************)
\* the finally blocks: `if (client) client.release()`
finally_keep(n, held) == n

finally_release(n, held) == IF held THEN n - 1 ELSE n

\* await getDbCredentials(); pool = new Pool(dbCredentials)
getDbCredentials ==
    /\ initPc = "credentials"
    /\ \/ /\ pool' = TRUE
          /\ initPc' = "connect"
       \/ /\ initPc' = "exited"
          /\ UNCHANGED pool
    /\ UNCHANGED <<initClient, backend, tableExists, table, checkedOut, pc, req,
                   client, resp, answered, attempts, lastRows, lastPut, now>>

\* const client = await pool.connect()
initializePool_connect ==
    /\ initPc = "connect"
    /\ \/ /\ backend = "up"
          /\ checkedOut < PoolSize
          /\ checkedOut' = checkedOut + 1
          /\ initClient' = TRUE
          /\ initPc' = "test_query"
       \/ /\ backend = "down"
          /\ initPc' = "exited"
          /\ UNCHANGED <<checkedOut, initClient>>
    /\ UNCHANGED <<pool, backend, tableExists, table, pc, req, client, resp,
                   answered, attempts, lastRows, lastPut, now>>

\* await client.query('SELECT NOW()')
initializePool_test ==
    /\ initPc = "test_query"
    /\ \/ /\ backend = "up"
          /\ initPc' = "create_table"
          /\ UNCHANGED <<checkedOut, initClient>>
       \/ /\ backend = "down"
          /\ checkedOut' = finally_release(checkedOut, initClient)
          /\ initClient' = FALSE
          /\ initPc' = "exited"
    /\ UNCHANGED <<pool, backend, tableExists, table, pc, req, client, resp,
                   answered, attempts, lastRows, lastPut, now>>

\* await client.query(createTableQuery); finally client.release()
initializePool_create ==
    /\ initPc = "create_table"
    /\ \/ /\ backend = "up"
          /\ tableExists' = TRUE
          /\ initPc' = "ready"
       \/ /\ backend = "down"
          /\ initPc' = "exited"
          /\ UNCHANGED tableExists
    /\ checkedOut' = finally_release(checkedOut, initClient)
    /\ initClient' = FALSE
    /\ UNCHANGED <<pool, backend, table, pc, req, client, resp, answered,
                   attempts, lastRows, lastPut, now>>

initializePool ==
    \/ getDbCredentials
    \/ initializePool_connect
    \/ initializePool_test
    \/ initializePool_create

(***************************************************************************)
(* The environment: the database failing and recovering, the clock.       *)
(***************************************************************************)
BackendFails ==
    /\ backend = "up"
    /\ backend' = "down"
    /\ UNCHANGED <<pool, initPc, initClient, tableExists, table, checkedOut, pc,
                   req, client, resp, answered, attempts, lastRows, lastPut, now>>

BackendRecovers ==
    /\ backend = "down"
    /\ backend' = "up"
    /\ UNCHANGED <<pool, initPc, initClient, tableExists, table, checkedOut, pc,
                   req, client, resp, answered, attempts, lastRows, lastPut, now>>

Tick ==
    /\ now < MaxClock
    /\ now' = now + 1
    /\ UNCHANGED <<pool, initPc, initClient, backend, tableExists, table,
                   checkedOut, pc, req, client, resp, answered, attempts, lastRows,
                   lastPut>>

(***************************************************************************)
(* The handlers.  Each action is one synchronous run of a handler, from   *)
(* one await to the next.                                                  *)
(***************************************************************************)
Respond(r, status, error, data, rows) ==
    /\ resp' = [resp EXCEPT ![r] = [status |-> status, error |-> error,
                                    data |-> data, rows |-> rows]]
    /\ answered' = [answered EXCEPT ![r] = answered[r] + 1]
    /\ pc' = [pc EXCEPT ![r] = "done"]

\* a catch block that swallows the error without answering
catch_silent(r, error) ==
    /\ pc' = [pc EXCEPT ![r] = "done"]
    /\ UNCHANGED <<resp, answered>>

\* the catch blocks: res.status(500).json({error, details})
catch_respond(r, error) == Respond(r, 500, error, <<>>, {})

\* the parameter list with price coerced by truthiness
values_coerced(body) ==
    <<body.symbol, IF Falsy(body.price) THEN Null ELSE body.price, body.volume,
      body.pe_ratio, body.divident_yield, body.one_year_target,
      body.news_summaries_json, body.last_analysis_timestamp>>

\* the parameter list with the symbol cut to one character
values_cut(body) ==
    <<IF body.symbol.t = "string" THEN Str(SubSeq(body.symbol.v, 1, 1)) ELSE body.symbol,
      body.price, body.volume, body.pe_ratio, body.divident_yield,
      body.one_year_target, body.news_summaries_json, body.last_analysis_timestamp>>

\* const values = [symbol, price, volume, pe_ratio, divident_yield, ...]
values(body) ==
    <<body.symbol, body.price, body.volume, body.pe_ratio, body.divident_yield,
      body.one_year_target, body.news_summaries_json, body.last_analysis_timestamp>>

\* inserts under way; with cap it keeps the table within the model's bound
PutsInFlight == Cardinality({r \in AllClients : pc[r] \in {"connect", "query"} /\ req[r].kind = "PUT"})

\* put_stocks up to `await pool.connect()`
put_stocks(r, body, cap) ==
    /\ initPc # "exited"
    /\ pc[r] = "idle"
    /\ (pool /\ ~Falsy(body.symbol)) => Len(table) + PutsInFlight < cap
    /\ req' = [req EXCEPT ![r] = [kind |-> "PUT", body |-> body]]
    /\ IF ~pool
       THEN /\ Respond(r, 500, "Database connection not available. Please check server logs.", <<>>, {})
            /\ UNCHANGED attempts
       ELSE IF Falsy(body.symbol)
       THEN /\ Respond(r, 400, "Missing required field: symbol.", <<>>, {})
            /\ UNCHANGED attempts
       ELSE /\ pc' = [pc EXCEPT ![r] = "connect"]
            /\ attempts' = [attempts EXCEPT ![r] = attempts[r] + 1]
            /\ UNCHANGED <<resp, answered>>
    /\ UNCHANGED <<pool, initPc, initClient, backend, tableExists, table,
                   checkedOut, client, lastRows, lastPut, now>>

\* client = await pool.connect() in put_stocks; on rejection catch and finally
put_stocks_connect(r) ==
    /\ initPc # "exited"
    /\ pc[r] = "connect"
    /\ req[r].kind = "PUT"
    /\ \/ /\ backend = "up"
          /\ checkedOut < PoolSize
          /\ checkedOut' = checkedOut + 1
          /\ client' = [client EXCEPT ![r] = TRUE]
          /\ pc' = [pc EXCEPT ![r] = "query"]
          /\ UNCHANGED <<resp, answered>>
       \/ /\ backend = "down"
          /\ catch_respond(r, "Failed to save stock data.")
          /\ checkedOut' = finally_release(checkedOut, client[r])
          /\ UNCHANGED client
    /\ UNCHANGED <<pool, initPc, initClient, backend, tableExists, table, req,
                   attempts, lastRows, lastPut, now>>

\* await client.query(insertQuery, values); 201, or catch; finally release
put_stocks_query(r) ==
    /\ initPc # "exited"
    /\ pc[r] = "query"
    /\ req[r].kind = "PUT"
    /\ LET row == InsertRow(values(req[r].body)) IN
       IF backend = "up" /\ tableExists /\ RowOk(row)
       THEN /\ table' = Append(table, row)
            /\ Respond(r, 201, "", <<JsonRow(row)>>, {})
            /\ lastPut' = [some |-> TRUE, ctid |-> Len(table) + 1, body |-> req[r].body]
            /\ lastRows' = NoRows
       ELSE /\ catch_respond(r, "Failed to save stock data.")
            /\ UNCHANGED <<table, lastPut, lastRows>>
    /\ checkedOut' = finally_release(checkedOut, client[r])
    /\ client' = [client EXCEPT ![r] = FALSE]
    /\ UNCHANGED <<pool, initPc, initClient, backend, tableExists, req, attempts,
                   now>>

\* get_stocks up to `await pool.connect()`
get_stocks(r) ==
    /\ initPc # "exited"
    /\ pc[r] = "idle"
    /\ req' = [req EXCEPT ![r] = [kind |-> "GET", body |-> EmptyBody]]
    /\ IF ~pool
       THEN /\ Respond(r, 500, "Database connection not available.", <<>>, {})
            /\ UNCHANGED attempts
       ELSE /\ pc' = [pc EXCEPT ![r] = "connect"]
            /\ attempts' = [attempts EXCEPT ![r] = attempts[r] + 1]
            /\ UNCHANGED <<resp, answered>>
    /\ UNCHANGED <<pool, initPc, initClient, backend, tableExists, table,
                   checkedOut, client, lastRows, lastPut, now>>

\* client = await pool.connect() in get_stocks; on rejection catch and finally
get_stocks_connect(r) ==
    /\ initPc # "exited"
    /\ pc[r] = "connect"
    /\ req[r].kind = "GET"
    /\ \/ /\ backend = "up"
          /\ checkedOut < PoolSize
          /\ checkedOut' = checkedOut + 1
          /\ client' = [client EXCEPT ![r] = TRUE]
          /\ pc' = [pc EXCEPT ![r] = "query"]
          /\ UNCHANGED <<resp, answered>>
       \/ /\ backend = "down"
          /\ catch_respond(r, "Failed to retrieve stocks.")
          /\ checkedOut' = finally_release(checkedOut, client[r])
          /\ UNCHANGED client
    /\ UNCHANGED <<pool, initPc, initClient, backend, tableExists, table, req,
                   attempts, lastRows, lastPut, now>>

\* await client.query('SELECT * ... LIMIT 100'); 200, or catch; finally release
get_stocks_query(r) ==
    /\ initPc # "exited"
    /\ pc[r] = "query"
    /\ req[r].kind = "GET"
    /\ IF backend = "up" /\ tableExists
       THEN LET json == [i \in 1..Len(table) |-> JsonRow(table[i])] IN
            \E S \in SelectLimit(Len(table)) :
              LET rows == {[ctid |-> i, row |-> json[i]] : i \in S} IN
                /\ Respond(r, 200, "", <<>>, rows)
                /\ lastRows' = [some |-> TRUE, rows |-> rows]
       ELSE /\ catch_respond(r, "Failed to retrieve stocks.")
            /\ UNCHANGED lastRows
    /\ checkedOut' = finally_release(checkedOut, client[r])
    /\ client' = [client EXCEPT ![r] = FALSE]
    /\ UNCHANGED <<pool, initPc, initClient, backend, tableExists, table, req,
                   attempts, lastPut, now>>

\* the response has gone out and the slot takes the next request
Close(r) ==
    /\ initPc # "exited"
    /\ pc[r] = "done"
    /\ pc' = [pc EXCEPT ![r] = "idle"]
    /\ req' = [req EXCEPT ![r] = NoReq]
    /\ resp' = [resp EXCEPT ![r] = NoResp]
    /\ answered' = [answered EXCEPT ![r] = 0]
    /\ attempts' = [attempts EXCEPT ![r] = 0]
    /\ UNCHANGED <<pool, initPc, initClient, backend, tableExists, table,
                   checkedOut, client, lastRows, lastPut, now>>

Handlers(C, P, cap) ==
    \E r \in C :
        \/ \E body \in P : put_stocks(r, body, cap)
        \/ put_stocks_connect(r)
        \/ put_stocks_query(r)
        \/ get_stocks(r)
        \/ get_stocks_connect(r)
        \/ get_stocks_query(r)
        \/ Close(r)

Environment == BackendFails \/ BackendRecovers

(***************************************************************************)
(* Specifications.                                                         *)
(***************************************************************************)
\* one request at a time over the full set of request bodies
Next ==
    \/ initializePool
    \/ Environment
    \/ Tick
    \/ Handlers(DataClients, Payloads, MaxRows)

Spec == Init /\ [][Next]_vars

\* concurrent requests sharing the pool
NextPool ==
    \/ initializePool
    \/ Environment
    \/ Handlers(PoolClients, PoolPayloads, PoolRows)

SpecPool == Init /\ [][NextPool]_vars

\* two concurrent requests, for the properties of progress
NextFair ==
    \/ initializePool
    \/ Environment
    \/ Handlers(FairClients, PoolPayloads, PoolRows)

\* the table filled beyond the LIMIT of the SELECT, the backend staying as
\* it was at startup
NextBulk ==
    \/ initializePool
    \/ Handlers(BulkClients, BulkPayloads, RowLimit + BulkExtra)

SpecBulk == Init /\ [][NextBulk]_vars

\* two concurrent requests with the scheduling the runtime gives: the backend
\* answers every connect and every query, and the pool serves its waiters
FairSpec ==
    /\ Init
    /\ [][NextFair]_vars
    /\ SF_vars(initializePool_connect)
    /\ WF_vars(initializePool_test)
    /\ WF_vars(initializePool_create)
    /\ \A r \in FairClients :
        /\ SF_vars(put_stocks_connect(r))
        /\ SF_vars(get_stocks_connect(r))
        /\ WF_vars(put_stocks_query(r))
        /\ WF_vars(get_stocks_query(r))

(***************************************************************************)
(* Steps and predicates the properties speak of.                           *)
(***************************************************************************)
\* slot r takes a request in this step
Arrives(r) == pc[r] = "idle" /\ pc'[r] # "idle"

\* the query of slot r's PUT / GET comes back in this step
PutStep(r) == pc[r] = "query" /\ req[r].kind = "PUT" /\ pc'[r] = "done"
GetStep(r) == pc[r] = "query" /\ req[r].kind = "GET" /\ pc'[r] = "done"

InFlight(r) == pc[r] \in {"connect", "query"}

NoUsableSymbol(body) == body.symbol \in {Undef, Null, Str(<<>>)}
NonEmptySymbol(body) == body.symbol.t = "string" /\ Len(body.symbol.v) >= 1
FitsSymbol(body) == body.symbol.t = "string" /\ Len(body.symbol.v) \in 1..10
MentionsSymbol(msg) == msg = "Missing required field: symbol."

\* the fields beside symbol hold values their columns accept
OtherFieldsFit(body) ==
    /\ \A k \in NumericKeys : body[k].t \in {"undefined", "null", "number"}
    /\ body.news_summaries_json.t \in {"undefined", "null", "string", "number"}
    /\ body.last_analysis_timestamp.t \in {"undefined", "null", "iso"}

\* exactly one row is added in this step
OneRowAdded ==
    /\ Len(table') = Len(table) + 1
    /\ SubSeq(table', 1, Len(table)) = table

NumericColumns == {"price", "volume", "pe_ratio", "dividend_yield", "one_year_target"}

\* the body key the handler reads for a numeric column
KeyOf(col) == IF col = "dividend_yield" THEN "divident_yield" ELSE col

FullyPopulated(body) == \A c \in Columns : body[c].t \notin {"undefined", "null"}

(***************************************************************************)
(* C1.                                                                     *)
(***************************************************************************)
\* C1 (as claimed): a PUT whose body has no usable symbol is answered 400 with
\* a message that mentions symbol, in every state of the storage connection,
\* and leaves the table as it was.
C1_AsClaimed ==
    [][\A r \in AllClients :
        (Arrives(r) /\ req'[r].kind = "PUT" /\ NoUsableSymbol(req'[r].body))
        => /\ pc'[r] = "done"
           /\ resp'[r].status = 400
           /\ MentionsSymbol(resp'[r].error)
           /\ table' = table]_vars

\* C1 (amended): a PUT whose body has no usable symbol is answered at once and
\* leaves the table as it was; the answer is 400 with a message that mentions
\* symbol when the pool object exists, and 500 when it does not exist yet.
C1_Amended ==
    [][\A r \in AllClients :
        (Arrives(r) /\ req'[r].kind = "PUT" /\ NoUsableSymbol(req'[r].body))
        => /\ pc'[r] = "done"
           /\ answered'[r] = 1
           /\ table' = table
           /\ IF pool
              THEN resp'[r].status = 400 /\ MentionsSymbol(resp'[r].error)
              ELSE resp'[r].status = 500]_vars

C1_Witness ==
    \E r \in AllClients :
        /\ pc[r] = "done"
        /\ req[r].kind = "PUT"
        /\ req[r].body.symbol = Str(<<>>)
        /\ resp[r].status = 400
        /\ initPc = "ready"

(***************************************************************************)
(* C2.                                                                     *)
(***************************************************************************)
\* C2 (as claimed): a PUT with a non-empty symbol of any length, its insert
\* executed by a working backend, is answered 201, adds exactly one row, and
\* data.symbol equals the input symbol.
C2_AsClaimed ==
    [][\A r \in AllClients :
        (PutStep(r) /\ backend = "up" /\ tableExists
            /\ NonEmptySymbol(req[r].body) /\ OtherFieldsFit(req[r].body))
        => /\ resp'[r].status = 201
           /\ OneRowAdded
           /\ resp'[r].data[1].symbol = req[r].body.symbol]_vars

\* C2 (amended): a PUT with a symbol of 1 to 10 characters and other fields
\* their columns accept goes on to the pool when the pool object exists, to
\* its insert when the backend gives a connection, and, the backend executing
\* the insert on the existing table, is answered 201, adds exactly one row,
\* and both the stored symbol and data.symbol equal the input symbol.
C2_Amended ==
    [][\A r \in AllClients :
        /\ (Arrives(r) /\ req'[r].kind = "PUT" /\ pool /\ FitsSymbol(req'[r].body))
           => (pc'[r] = "connect" /\ table' = table)
        /\ (pc[r] = "connect" /\ req[r].kind = "PUT" /\ pc'[r] # "connect" /\ backend = "up")
           => (pc'[r] = "query" /\ table' = table)
        /\ (PutStep(r) /\ backend = "up" /\ tableExists
               /\ FitsSymbol(req[r].body) /\ OtherFieldsFit(req[r].body))
           => /\ resp'[r].status = 201
              /\ OneRowAdded
              /\ table'[Len(table')].symbol = Text(req[r].body.symbol.v)
              /\ Len(resp'[r].data) = 1
              /\ resp'[r].data[1].symbol = req[r].body.symbol]_vars

C2_Witness ==
    \E r \in AllClients :
        /\ pc[r] = "done"
        /\ req[r].kind = "PUT"
        /\ req[r].body.symbol = Str(A10)
        /\ resp[r].status = 201
        /\ Len(table) = 1
        /\ table[1].symbol = Text(A10)

C4_AsClaimed ==
    [][\A r \in AllClients :
        (PutStep(r) /\ resp'[r].status = 201
            /\ req[r].body.last_analysis_timestamp = Undef)
        => table'[Len(table')].last_analysis_timestamp = Timestamp(now)]_vars

(***************************************************************************)
(* C5.                                                                     *)
(***************************************************************************)
\* C5 (as claimed): a request goes on to acquire a connection and run its
\* query only when initializePool has completed (state Ready); in every other
\* state it has been failed at once and issues no query.
C5_AsClaimed ==
    \A r \in AllClients : InFlight(r) => initPc = "ready"

(***************************************************************************)
(* C6.                                                                     *)
(***************************************************************************)
\* C6: the connections checked out of the pool are exactly those held by a
\* handler at its query or by initializePool between its connect and its
\* finally; a handler or initializePool past its finally holds none; so with
\* nothing in flight none is checked out; and never more than PoolSize are.
C6_Released ==
    /\ checkedOut = Cardinality({r \in AllClients : client[r]}) + (IF initClient THEN 1 ELSE 0)
    /\ checkedOut <= PoolSize
    /\ \A r \in AllClients : client[r] <=> pc[r] = "query"
    /\ initClient <=> initPc \in {"test_query", "create_table"}
    /\ ((\A r \in AllClients : ~InFlight(r)) /\ ~initClient) => checkedOut = 0

\* the pool is exhausted by initializePool and a handler at its query while
\* another handler waits in pool.connect
C6_Witness ==
    \E r, q \in AllClients :
        /\ r # q
        /\ pc[r] = "connect"
        /\ client[q]
        /\ initClient
        /\ backend = "up"
        /\ checkedOut = PoolSize

(***************************************************************************)
(* C7.                                                                     *)
(***************************************************************************)
\* C7: a GET whose query a working backend answers in state Ready is answered
\* 200 with exactly min(n, 100) records of the n in the table, each one a
\* record of the table.
C7_Limit ==
    [][\A r \in AllClients :
        (GetStep(r) /\ backend = "up" /\ initPc = "ready")
        => /\ resp'[r].status = 200
           /\ Cardinality(resp'[r].rows) = Min(Len(table), RowLimit)
           /\ Cardinality({e.ctid : e \in resp'[r].rows}) = Min(Len(table), RowLimit)
           /\ \A e \in resp'[r].rows :
                /\ e.ctid \in 1..Len(table)
                /\ e.row = JsonRow(table[e.ctid])]_vars

C7_Witness ==
    \E r \in AllClients :
        /\ pc[r] = "done"
        /\ req[r].kind = "GET"
        /\ resp[r].status = 200
        /\ Len(table) = RowLimit + 1
        /\ Cardinality(resp[r].rows) = RowLimit

(***************************************************************************)
(* C8.                                                                     *)
(***************************************************************************)
\* C8 (as claimed): a GET answered 200 returns the same set of records as the
\* GET answered before it when no insert completed between the two, whatever
\* the size of the table, and a GET leaves the table as it was.
C8_AsClaimed ==
    [][\A r \in AllClients :
        GetStep(r)
        => /\ table' = table
           /\ (resp'[r].status = 200 /\ lastRows.some) => resp'[r].rows = lastRows.rows]_vars

(***************************************************************************)
(* C9.                                                                     *)
(***************************************************************************)
\* a returned field equals the value inserted, a number up to its decimal
\* string
SameValue(json, input) ==
    \/ json = input
    \/ input.t = "number" /\ json = Str(Dec(input.v[1]))

\* C9 (as claimed): a GET answered 200 after a successful PUT of a body with
\* every field of the data model populated returns the inserted record, every
\* field equal to the value inserted.
C9_AsClaimed ==
    [][\A r \in AllClients :
        (GetStep(r) /\ resp'[r].status = 200 /\ lastPut.some /\ FullyPopulated(lastPut.body))
        => \E e \in resp'[r].rows :
             /\ e.ctid = lastPut.ctid
             /\ \A c \in Columns : SameValue(e.row[c], lastPut.body[c])]_vars

====
